---- MODULE Spec2Model ----
(***************************************************************************)
(* Model of the WordPress -> Storyblok mapping core:                       *)
(*   StoryMapper        slug assignment (generateUniqueSlug/generateSlug)  *)
(*   AssetExtractor     external asset registry and downloads              *)
(*   LinkTransformer    link classification and URL rewriting              *)
(*   WordPressToStoryblokMapper.mapAll   the run's stages                  *)
(*   FieldTransformer   the named field transforms and transform          *)
(*   HtmlToRichtextTransformer   the richtext fallback                     *)
(*                                                                         *)
(* Text is modelled at token granularity: a string is the sequence of its  *)
(* words, the separator "-" (or white space) standing between tokens, so   *)
(* "coffee-1" is <<"coffee", "1">> and appending "-" \o n is Append.       *)
(***************************************************************************)
EXTENDS Integers, Sequences, FiniteSets, TLC

VARIABLES
    existingSlugs,  \* StoryMapper.existingSlugs: the one Set of assigned slugs
    stories,        \* the stories produced so far, in production order
    now,            \* the value Date.now() returns (milliseconds, abstract)
    assets,         \* AssetExtractor.assets: Map key -> asset info
    calls,          \* the extractAsset calls made so far, in starting order
    nextRef,        \* identity of the next asset info object to be created
    manifestLoaded, \* loadExistingManifest has run
    pc,             \* mapAll: the stage about to run, or "done" / "failed"
    siteUrl,        \* config.siteUrl ("" when not configured)
    posts,          \* wordpressData.posts
    langsLeft,      \* mapStoriesWithOrganization: languages still to map
    itemIdx,        \* mapStories: index of the next post
    written,        \* the output files written so far
    links,          \* the link objects createLinkObject has returned
    rejection,      \* the error mapAll rejects with ("" while there is none)
    unreadable,     \* loadJsonFile has caught a read error
    input,          \* the arguments of the transformer call under study
    outcome         \* what that call did: the operation and its result

slugVars == <<existingSlugs, stories, now>>

assetVars == <<assets, calls, nextRef, manifestLoaded>>

runVars == <<pc, siteUrl, posts, langsLeft, itemIdx, written, links, rejection, unreadable>>

fieldVars == <<input, outcome>>

vars == <<slugVars, assetVars, runVars, fieldVars>>

----------------------------------------------------------------------------
(* Bounds *)

MaxStories == 3
MaxTicks == 2
MaxUsers == 2
MaxCalls == 3
IdSpace == 2
MaxManifest == 1
MaxPosts == 2
MaxLinks == 1
MaxItems == 2
MaxFields == 2

----------------------------------------------------------------------------
(* Text and slugify *)

Languages == {"en", "es"}

\* Tokens the strict mode of slugify removes entirely ("!" is listed in the
\* remove option of generateSlug, "?" is outside slugify's allowed characters).
StrictRemoved == {"!", "?"}

\* Tokens the default mode of slugify removes ("!" is kept by default).
DefaultRemoved == {"?"}

Digits == {"0", "1", "2", "3", "4", "5", "6", "7", "8", "9"}

\* String.prototype.toLowerCase on one token.
ToLowerCase(tok) == IF tok = "Coffee" THEN "coffee" ELSE tok

LowerAll(text) == [i \in 1..Len(text) |-> ToLowerCase(text[i])]

KeptStrict(tok) == tok \notin StrictRemoved

KeptDefault(tok) == tok \notin DefaultRemoved

\* slugify(text) with default options: drops disallowed characters, joins
\* the words with "-", keeps the case.
SlugifyDefault(text) == SelectSeq(text, KeptDefault)

\* slugify(text, {lower: true}).
SlugifyLower(text) == LowerAll(SelectSeq(text, KeptDefault))

\* slugify(text.toLowerCase(), {remove: /[*+~.()'"!:@]/g, lower: true, strict: true}).
SlugifyStrict(text) == SelectSeq(LowerAll(text), KeptStrict)

\* The token a Date.now() reading contributes to a template string.  A
\* timestamp is a 13-digit number: it never equals one of the small
\* counters or digit tokens of the model.
TimeToken(t) == "t" \o ToString(t)

\* /^\d/.test(baseSlug)
StartsWithDigit(slug) == Len(slug) > 0 /\ slug[1] \in Digits

\* `${baseSlug}-${counter}`
WithCounter(baseSlug, counter) == Append(baseSlug, ToString(counter))

\* The source texts the model draws titles, names and slugs from.
Texts == { <<>>, <<"Coffee">>, <<"coffee", "1">>, <<"!">>, <<"?">>, <<"7">> }

\* The values of a source record's own slug field.
SourceSlugs == { <<>>, <<"coffee">> }

\* The values of a user's name field.
UserNames == { <<>>, <<"Coffee">> }

----------------------------------------------------------------------------
(* StoryMapper.generateSlug / generateUniqueSlug *)

\* The base slug generateSlug derives from a non-empty text (lines 708-717).
BaseSlug(text, t) ==
    LET s == SlugifyStrict(text)
    IN  IF s = <<>> THEN <<"story", TimeToken(t)>>
        ELSE IF StartsWithDigit(s) THEN <<"story">> \o s
        ELSE s

\* The counter the first collision of a base slug is given (line 720).
FirstCounter == 1

\* The while loop of generateSlug (lines 719-727): the first of
\* base, base-c, base-(c+1), ... that is not in `existing`.
RECURSIVE Probe(_, _, _, _)
Probe(base, slug, counter, existing) ==
    IF slug \in existing
    THEN Probe(base, WithCounter(base, counter), counter + 1, existing)
    ELSE slug

\* generateSlug(text, existingSlugs) at time t.
GenerateSlug(text, existing, t) ==
    IF text = <<>>
    THEN <<"story", TimeToken(t)>>
    ELSE LET base == BaseSlug(text, t)
         IN  Probe(base, base, FirstCounter, existing)

----------------------------------------------------------------------------
(* StoryMapper: the mapping operations, as far as they assign slugs *)

\* A user record without a name: user.name is undefined.
NoName == <<"<undefined>">>

PostTypes == {"recipe"}

ItemIds == {7}

\* A post, page or custom item: its own slug and its title.rendered.
Items == [slug : SourceSlugs, title : Texts]

Users == [slug : SourceSlugs, name : UserNames \cup {NoName}]

\* The story object built by mapPost / mapPage / mapCustomPostType /
\* mapAuthors: its lang, slug and meta_data.wordpress_path (the path
\* segments of the item's link, << >> without a link), its full_slug (not
\* set before organizeStories) and, as a record of the call, the text that
\* was handed to generateUniqueSlug.
Story(language, slug, text, wpPath) ==
    [lang |-> language, slug |-> slug, text |-> text,
     wpPath |-> wpPath, organized |-> FALSE]

\* generateUniqueSlug(baseSlug) (lines 687-691): the slug, and the set with
\* the slug added.  The set is the mapper's single set, whatever the locale.
GenerateUniqueSlug(text, existing, t) ==
    LET slug == GenerateSlug(text, existing, t)
    IN  [slug |-> slug, existing |-> existing \cup {slug}]

\* post.slug || slugify(post.title.rendered)   (lines 302, 357)
PostSlugText(post) ==
    IF post.slug # <<>> THEN post.slug ELSE SlugifyDefault(post.title)

\* item.slug || slugify(item.title?.rendered || item.name || `${postType}-${item.id}`)
CustomSlugText(item, postType, id) ==
    IF item.slug # <<>> THEN item.slug
    ELSE IF item.title # <<>> THEN SlugifyDefault(item.title)
    ELSE SlugifyDefault(<<postType, ToString(id)>>)

\* user.slug || slugify(user.name, { lower: true })   (line 628)
UserSlugText(user) ==
    IF user.slug # <<>> THEN user.slug ELSE SlugifyLower(user.name)

\* slugify(undefined) throws; the throw is caught per user (lines 673-678).
UserThrows(user) == user.slug = <<>> /\ user.name = NoName

AssignStory(language, text) ==
    LET r == GenerateUniqueSlug(text, existingSlugs, now)
    IN  /\ existingSlugs' = r.existing
        /\ stories' = Append(stories, Story(language, r.slug, text, << >>))
        /\ now' = now
        /\ UNCHANGED <<assetVars, runVars, fieldVars>>

MapPost(post, language) ==
    /\ Len(stories) < MaxStories
    /\ AssignStory(language, PostSlugText(post))

MapPage(page, language) ==
    /\ Len(stories) < MaxStories
    /\ AssignStory(language, PostSlugText(page))

MapCustomPostType(item, postType, id, language) ==
    /\ Len(stories) < MaxStories
    /\ AssignStory(language, CustomSlugText(item, postType, id))

\* The loop of mapAuthors over users (lines 626-679).  adv[i] tells whether
\* the clock has moved on when user i is reached.
RECURSIVE AuthorsLoop(_, _, _, _, _, _, _)
AuthorsLoop(users, adv, i, language, existing, out, t) ==
    IF i > Len(users)
    THEN [existing |-> existing, out |-> out, t |-> t]
    ELSE LET t1 == t + adv[i]
         IN  IF UserThrows(users[i])
             THEN AuthorsLoop(users, adv, i + 1, language, existing, out, t1)
             ELSE LET text == UserSlugText(users[i])
                      r == GenerateUniqueSlug(text, existing, t1)
                  IN  AuthorsLoop(users, adv, i + 1, language, r.existing,
                                  Append(out, Story(language, r.slug, text, << >>)), t1)

UserLists == UNION { [1..n -> Users] : n \in 1..MaxUsers }

MapAuthors(users, adv, language) ==
    LET r == AuthorsLoop(users, adv, 1, language, existingSlugs, <<>>, now)
    IN  /\ Len(stories) + Len(users) <= MaxStories
        /\ r.t <= MaxTicks
        /\ existingSlugs' = r.existing
        /\ stories' = stories \o r.out
        /\ now' = r.t
        /\ UNCHANGED <<assetVars, runVars, fieldVars>>

\* Time passes between two calls.
Tick ==
    /\ now < MaxTicks
    /\ now' = now + 1
    /\ UNCHANGED <<existingSlugs, stories>>
    /\ UNCHANGED <<assetVars, runVars, fieldVars>>

\* new StoryMapper(config)
InitStoryMapper ==
    /\ existingSlugs = {}
    /\ stories = <<>>
    /\ now = 0

\* new AssetExtractor(config)
InitAssetExtractor ==
    /\ assets = << >>
    /\ calls = << >>
    /\ nextRef = 1
    /\ manifestLoaded = FALSE

\* new WordPressToStoryblokMapper(configPath, options)
InitOrchestrator ==
    /\ pc = "initialize"
    /\ siteUrl = ""
    /\ posts = << >>
    /\ langsLeft = << >>
    /\ itemIdx = 1
    /\ written = {}
    /\ links = << >>
    /\ rejection = ""
    /\ unreadable = FALSE

\* No transformer call is under study.
NoCall == [op |-> "none"]

InitNoCall ==
    /\ input = NoCall
    /\ outcome = NoCall

Init == InitStoryMapper /\ InitAssetExtractor /\ InitOrchestrator /\ InitNoCall

InitSlug == Init

NextSlug ==
    \/ \E post \in Items, language \in Languages : MapPost(post, language)
    \/ \E page \in Items, language \in Languages : MapPage(page, language)
    \/ \E item \in Items, postType \in PostTypes, id \in ItemIds, language \in Languages :
            MapCustomPostType(item, postType, id, language)
    \/ \E users \in UserLists, language \in Languages :
            \E adv \in [1..Len(users) -> {0, 1}] : MapAuthors(users, adv, language)
    \/ Tick

SpecSlug == InitSlug /\ [][NextSlug]_vars

----------------------------------------------------------------------------
(* Slug claims *)

\* The base slug of a text that slugifies to something (no timestamp in it).
PlainBase(text) == BaseSlug(text, 0)

HasPlainBase(text) == text # <<>> /\ SlugifyStrict(text) # <<>>

\* C1: for every locale, no two produced stories of that locale have the
\* same slug, whatever the inputs (empty slug and title included).
C1_SlugUniquePerLocale ==
    \A i, j \in 1..Len(stories) :
        (i # j /\ stories[i].lang = stories[j].lang)
            => stories[i].slug # stories[j].slug

\* C2: when all the items assigned so far are of one locale and have the
\* same normalized base slug, the first keeps the bare slug and the i-th
\* (i >= 2) has received <base>-i.
C2_SuffixIsOrdinal ==
    \A k \in 1..Len(stories) :
        (\A j \in 1..k :
            /\ stories[j].lang = stories[k].lang
            /\ HasPlainBase(stories[j].text)
            /\ PlainBase(stories[j].text) = PlainBase(stories[k].text))
        => stories[k].slug =
              IF k = 1 THEN PlainBase(stories[k].text)
              ELSE WithCounter(PlainBase(stories[k].text), k)

\* C3: an item that is the first of its locale with its base slug, while no
\* story of that locale holds that slug, receives the bare base slug, even
\* if the slug was assigned in another locale before.
C3_BareSlugPerLocale ==
    \A k \in 1..Len(stories) :
        (/\ HasPlainBase(stories[k].text)
         /\ \A j \in 1..(k - 1) :
                stories[j].lang = stories[k].lang
                    => /\ stories[j].slug # PlainBase(stories[k].text)
                       /\ ~(HasPlainBase(stories[j].text)
                            /\ PlainBase(stories[j].text) = PlainBase(stories[k].text)))
        => stories[k].slug = PlainBase(stories[k].text)

----------------------------------------------------------------------------
(* AssetExtractor *)

Urls == {"https://ext.example/cup.jpg", "https://cdn.example/mug.png"}

\* generateAssetId(): Math.floor(Math.random() * 1000000), any value of the
\* range; the model's range is 0..IdSpace-1.
GeneratedIds == 0..(IdSpace - 1)

\* A key of the Map: the number generateAssetId returned, or, for an entry
\* restored from the manifest, the property name JSON gave it (a string).
NumKey(id) == [kind |-> "number", v |-> id]

StrKey(id) == [kind |-> "string", v |-> id]

\* The asset info object of createStoryblokAssetInfo: ref is the identity
\* of the object, id its id field, url its meta_data.originalUrl.
AssetInfo(ref, id, url) == [ref |-> ref, id |-> id, url |-> url]

\* The null of JavaScript, as the identity of no object.
Null == 0

\* Map.prototype.set on the insertion-ordered Map: an existing key keeps its
\* place and has its value replaced, a new key is appended.
MapSet(map, key, value) ==
    IF \E i \in 1..Len(map) : map[i].key = key
    THEN [i \in 1..Len(map) |->
            IF map[i].key = key THEN [key |-> key, value |-> value] ELSE map[i]]
    ELSE Append(map, [key |-> key, value |-> value])

\* findExistingAsset(url) (lines 181-188): the first value, in insertion
\* order, whose originalUrl is url; Null's place is taken by index 0.
FindExistingIndex(map, url) ==
    IF \E i \in 1..Len(map) : map[i].value.url = url
    THEN CHOOSE i \in 1..Len(map) :
            /\ map[i].value.url = url
            /\ \A j \in 1..(i - 1) : map[j].value.url # url
    ELSE 0

FindExistingAsset(map, url) ==
    LET i == FindExistingIndex(map, url)
    IN  IF i = 0 THEN Null ELSE map[i].value.ref

\* The calls whose download is in flight.
InFlight == { c \in 1..Len(calls) : calls[c].st = "fetching" }

\* extractAsset(url), up to its first suspension (lines 30-39): an already
\* registered asset is returned at once, otherwise downloadAsset starts its
\* one fetch.
StartedCall(url) ==
    LET existing == FindExistingAsset(assets, url)
    IN  IF existing # Null
        THEN [url |-> url, st |-> "returned", res |-> existing,
              attempts |-> 0, during |-> InFlight]
        ELSE [url |-> url, st |-> "fetching", res |-> Null,
              attempts |-> 1, during |-> InFlight]

ExtractAssetBegin(url) ==
    /\ Len(calls) < MaxCalls
    /\ calls' = Append(calls, StartedCall(url))
    /\ UNCHANGED <<assets, nextRef, manifestLoaded>>
    /\ UNCHANGED <<slugVars, runVars, fieldVars>>

\* The registry insert of extractAsset (line 48).
RegisterAsset(map, info) == MapSet(map, NumKey(info.id), info)

\* The fetch of call c succeeds with a non-empty file: downloadAsset returns
\* its result, extractAsset creates the asset info under a generated id,
\* stores it and returns it (lines 40-50, 101-108).
DownloadSucceeds(c, id) ==
    LET info == AssetInfo(nextRef, id, calls[c].url)
    IN  /\ c \in InFlight
        /\ assets' = RegisterAsset(assets, info)
        /\ nextRef' = nextRef + 1
        /\ calls' = [calls EXCEPT ![c].st = "returned", ![c].res = info.ref]
        /\ UNCHANGED manifestLoaded
        /\ UNCHANGED <<slugVars, runVars, fieldVars>>

\* The fetch of call c fails (HTTP error, empty file, timeout): downloadAsset
\* catches, returns null, and extractAsset returns null (lines 40-42, 110-113).
DownloadFails(c) ==
    /\ c \in InFlight
    /\ calls' = [calls EXCEPT ![c].st = "returned", ![c].res = Null]
    /\ UNCHANGED <<assets, nextRef, manifestLoaded>>
    /\ UNCHANGED <<slugVars, runVars, fieldVars>>

\* The manifests saveManifest can have left behind: Object.fromEntries of a
\* registry, its keys property names, no two entries for one URL.
ManifestEntries == [id : GeneratedIds, url : Urls]

Manifests ==
    { m \in UNION { [1..n -> ManifestEntries] : n \in 0..MaxManifest } :
        \A i, j \in 1..Len(m) :
            i # j => (m[i].id # m[j].id /\ m[i].url # m[j].url) }

\* new Map(Object.entries(manifest.assets)): string keys, fresh objects.
RestoredMap(m, ref) ==
    [i \in 1..Len(m) |->
        [key |-> StrKey(m[i].id),
         value |-> AssetInfo(ref + i - 1, m[i].id, m[i].url)]]

\* loadExistingManifest() (lines 267-285), called by initialize() right
\* after the extractor is constructed.  found = FALSE: no manifest file.
LoadExistingManifest(found, m) ==
    /\ ~manifestLoaded
    /\ calls = << >>
    /\ manifestLoaded' = TRUE
    /\ IF found
       THEN /\ assets' = RestoredMap(m, nextRef)
            /\ nextRef' = nextRef + Len(m)
       ELSE UNCHANGED <<assets, nextRef>>
    /\ UNCHANGED calls
    /\ UNCHANGED <<slugVars, runVars, fieldVars>>

InitAsset == Init

\* extractAsset calls that may overlap.
NextAsset ==
    \/ \E url \in Urls : ExtractAssetBegin(url)
    \/ \E c \in 1..MaxCalls, id \in GeneratedIds : DownloadSucceeds(c, id)
    \/ \E c \in 1..MaxCalls : DownloadFails(c)
    \/ \E found \in BOOLEAN, m \in Manifests : LoadExistingManifest(found, m)

SpecAsset == InitAsset /\ [][NextAsset]_vars

\* extractAsset awaited before the next call starts.
ExtractAssetAwaited(url) ==
    /\ InFlight = {}
    /\ ExtractAssetBegin(url)

NextAssetSeq ==
    \/ \E url \in Urls : ExtractAssetAwaited(url)
    \/ \E c \in 1..MaxCalls, id \in GeneratedIds : DownloadSucceeds(c, id)
    \/ \E c \in 1..MaxCalls : DownloadFails(c)
    \/ \E found \in BOOLEAN, m \in Manifests : LoadExistingManifest(found, m)

SpecAssetSeq == InitAsset /\ [][NextAssetSeq]_vars

----------------------------------------------------------------------------
(* Asset claims *)

Returned(c) == calls[c].st = "returned"

\* C4: with every call awaited before the next starts, once extractAsset(u)
\* has returned a descriptor, every later extractAsset(u) returns that same
\* descriptor and downloads nothing.
C4_SequentialIdempotent ==
    \A i, j \in 1..Len(calls) :
        (/\ i < j
         /\ calls[i].url = calls[j].url
         /\ Returned(i) /\ Returned(j)
         /\ calls[i].res # Null)
        => (calls[j].res = calls[i].res /\ calls[j].attempts = 0)

\* C5: a call for u started while an earlier call's download of u was in
\* flight starts no download of its own, and both receive the same
\* descriptor object.
C5_OverlapShares ==
    \A i, j \in 1..Len(calls) :
        (/\ i \in calls[j].during
         /\ calls[i].url = calls[j].url
         /\ Returned(i) /\ Returned(j))
        => (calls[j].attempts = 0 /\ calls[j].res = calls[i].res)

\* retryAttempts, the configured attempt limit of asset downloads.
RetryAttempts == 3

\* C7: a resolve whose download failed has retried until the configured
\* attempt limit was reached, and has then returned null.
C7_FailureRetried ==
    \A c \in 1..Len(calls) :
        (Returned(c) /\ calls[c].attempts > 0 /\ calls[c].res = Null)
            => calls[c].attempts = RetryAttempts

\* C6: no two registry entries have the same origin URL.
C6_RegistryUniqueUrl ==
    \A i, j \in 1..Len(assets) :
        i # j => assets[i].value.url # assets[j].value.url

----------------------------------------------------------------------------
(* Strings that hold URLs, paths and slugs *)

\* A string value of the link code, by its form:
\*   "abs"   https://<host>/<seg>/.../?<query>     an absolute URL
\*   "rel"   /<seg>/.../?<query>                   a root-relative URL
\*   "path"  <seg>/<seg>                           no slash at either end;
\*           a slug is a path of one segment
\*   "undefined"                                   no string at all
\* segs are the path segments (each a token sequence), query the names of
\* the query parameters.
Str(form, host, segs, query) ==
    [form |-> form, host |-> host, segs |-> segs, query |-> query]

Undefined == Str("undefined", "", << >>, {})

SiteHost == "site.example"

ExternalHost == "ext.example"

AbsUrl(host, segs, query) == Str("abs", host, segs, query)

PathStr(segs) == Str("path", "", segs, {})

\* A slug as a string.
SlugStr(slug) == PathStr(<<slug>>)

\* new URL(link).pathname as a string: "/seg/.../"
PathnameStr(segs) == Str("rel", "", segs, {})

\* The query parameters the '*' rewriter deletes (lines 341-345).
WordPressParams == {"p", "page_id", "attachment_id", "preview", "preview_id"}

----------------------------------------------------------------------------
(* LinkTransformer *)

HasSegment(url, name) == \E i \in 1..Len(url.segs) : url.segs[i] = <<name>>

\* The tokens that carry one of the configured asset extensions.
AssetFileTokens == {"cup.jpg"}

\* isAssetUrl (lines 106-116): the lower-cased URL includes an extension.
IsAssetUrl(url) ==
    \E i \in 1..Len(url.segs) :
        \E k \in 1..Len(url.segs[i]) : url.segs[i][k] \in AssetFileTokens

\* isInternalUrl (lines 121-133): new URL(url, siteUrl) has the site's host.
IsInternalUrl(url, site) ==
    /\ site # ""
    /\ \/ url.form = "abs" /\ url.host = site
       \/ url.form \in {"rel", "path"}

\* The default detectors, in registration order (lines 295-318); "" stands
\* for a detector returning undefined.  context.config.taxonomies is not set.
WpAdminDetector(url) ==
    IF HasSegment(url, "wp-admin") THEN "url" ELSE ""

WpAttachmentDetector(url) ==
    IF url.form \in {"abs", "rel"} /\ "attachment_id" \in url.query
    THEN "asset" ELSE ""

WpTaxonomyDetector(url) ==
    IF HasSegment(url, "category") \/ HasSegment(url, "tag") THEN "url" ELSE ""

\* detectLinkType (lines 72-101)
DetectLinkType(url, site) ==
    IF WpAdminDetector(url) # "" THEN WpAdminDetector(url)
    ELSE IF WpAttachmentDetector(url) # "" THEN WpAttachmentDetector(url)
    ELSE IF WpTaxonomyDetector(url) # "" THEN WpTaxonomyDetector(url)
    ELSE IF url.form = "mailto" THEN "email"
    ELSE IF url.form = "tel" THEN "url"
    ELSE IF url.form = "anchor" THEN "url"
    ELSE IF IsAssetUrl(url) THEN "asset"
    ELSE IF IsInternalUrl(url, site) THEN "story"
    ELSE "url"

\* extractSlugFromUrl (lines 247-260): the last path segment, or ''.
ExtractSlugFromUrl(url) ==
    IF Len(url.segs) = 0 THEN PathStr(<< >>)
    ELSE PathStr(<<url.segs[Len(url.segs)]>>)

\* cleanUrl (lines 265-274): the pathname without its outer slashes.
CleanUrl(url) == PathStr(url.segs)

\* story.full_slug, set by organizeStories / applyPathConfiguration under
\* the default configuration (preservePath, no folder mapping, field-level
\* i18n): the WordPress path, or the slug when the item had no link.
FullSlug(story) ==
    IF ~story.organized THEN Undefined
    ELSE IF story.wpPath # << >> THEN PathnameStr(story.wpPath)
    ELSE SlugStr(story.slug)

\* s.slug === slug || s.full_slug === slug || s.path === slug   (line 172)
StoryMatches(story, slug) ==
    SlugStr(story.slug) = slug \/ FullSlug(story) = slug

\* rewriteStoryUrl (lines 165-182)
RewriteStoryUrl(url, ctxStories) ==
    LET slug == ExtractSlugFromUrl(url)
        hits == { i \in 1..Len(ctxStories) : StoryMatches(ctxStories[i], slug) }
    IN  IF slug # PathStr(<< >>) /\ hits # {}
        THEN LET story == ctxStories[CHOOSE i \in hits : \A j \in hits : i <= j]
             IN  IF FullSlug(story) # Undefined THEN FullSlug(story)
                 ELSE SlugStr(story.slug)
        ELSE CleanUrl(url)

\* The rewriter registered for 'asset' (lines 325-334): its pattern asks for
\* a literal backslash after "attachment_id=", which no URL of the model
\* has, so it returns undefined.
AssetRewriter(url) == Undefined

\* The rewriter registered for '*' (lines 337-351): the URL is resolved
\* against http://example.com, loses the WordPress query parameters, is
\* written out again and loses the prefix http://example.com.  An absolute
\* URL keeps its form; a relative path comes back with a leading "/", and
\* an anchor "#a" as "/#a".
StarRewriter(url) ==
    IF url.form = "path"
    THEN Str("rel", "", url.segs, url.query \ WordPressParams)
    ELSE IF url.form = "anchor"
    THEN Str("root-anchor", "", url.segs, url.query \ WordPressParams)
    ELSE [url EXCEPT !.query = url.query \ WordPressParams]

\* The switch of rewriteUrl (lines 150-159).
DefaultRewrite(url, linkType, ctxStories) ==
    IF linkType = "story" THEN RewriteStoryUrl(url, ctxStories) ELSE url

\* rewriteUrl (lines 138-160): the registered rewriters in registration
\* order ('asset', then '*'), the first defined result wins; the switch
\* is reached only when none returns a value.
RewriteUrl(url, linkType, ctxStories) ==
    IF linkType = "asset" /\ AssetRewriter(url) # Undefined
    THEN AssetRewriter(url)
    ELSE IF StarRewriter(url) # Undefined
    THEN StarRewriter(url)
    ELSE DefaultRewrite(url, linkType, ctxStories)

\* createLinkObject (lines 46-67): the link object, its linktype and url.
CreateLinkObject(url, ctxStories, site) ==
    LET linkType == DetectLinkType(url, site)
    IN  [linktype |-> linkType, url |-> RewriteUrl(url, linkType, ctxStories)]

----------------------------------------------------------------------------
(* WordPressToStoryblokMapper.mapAll *)

\* Object.keys(config.i18n.languages), the order of the locale loop.
ConfiguredLanguages == <<"en", "es">>

DefaultLanguage == "en"

\* post.title missing: post.title.rendered throws a TypeError.
NoTitle == <<"<undefined>">>

\* The posts of the export: each with its own slug, its permalink
\* https://site.example/<slug>/ and a title (or none).
RunSlugs == { <<"coffee">>, <<"tea">> }

RunPosts == [slug : RunSlugs, title : { <<"Coffee">>, NoTitle }]

PostLists == UNION { [1..n -> RunPosts] : n \in 0..MaxPosts }

\* new URL(post.link).pathname, as path segments.
WordPressPath(post) == <<post.slug>>

\* The URLs found in content: permalinks of the site (of posts, and of "mug",
\* which no post has), with or without ?preview=true, and an external URL.
LinkUrls ==
    { AbsUrl(SiteHost, <<sl>>, q) :
        sl \in RunSlugs \cup { <<"mug">> }, q \in { {}, {"preview"} } }
    \cup { AbsUrl(ExternalHost, << <<"mug">> >>, {}) }

\* `stories${suffix}.json` of saveFieldLevelStories (lines 226-229).
StoryFile(language) ==
    IF language = DefaultLanguage THEN "stories.json"
    ELSE "stories_" \o language \o ".json"

StoryFiles == { StoryFile(ConfiguredLanguages[i]) : i \in 1..Len(ConfiguredLanguages) }

\* The stage that follows each stage of mapAll (lines 195-227).
StageAfter(stage) ==
    CASE stage = "initialize" -> "loadWordPressData"
      [] stage = "loadWordPressData" -> "createOutputStructure"
      [] stage = "createOutputStructure" -> "mapComponents"
      [] stage = "mapComponents" -> "mapAssets"
      [] stage = "mapAssets" -> "mapDatasources"
      [] stage = "mapDatasources" -> "mapStories"
      [] stage = "mapStories" -> "saveStories"
      [] stage = "saveStories" -> "saveManifest"
      [] stage = "saveManifest" -> "generateMappingSummary"
      [] stage = "generateMappingSummary" -> "done"
      [] OTHER -> stage

\* initialize() (lines 67-110): the configuration is loaded (a bad one makes
\* load throw), the mappers are built and the asset manifest is restored.
Initialize(valid, site, found, m) ==
    /\ pc = "initialize"
    /\ IF valid
       THEN /\ pc' = StageAfter(pc)
            /\ siteUrl' = site
            /\ manifestLoaded' = TRUE
            /\ IF found
               THEN /\ assets' = RestoredMap(m, nextRef)
                    /\ nextRef' = nextRef + Len(m)
               ELSE UNCHANGED <<assets, nextRef>>
            /\ UNCHANGED rejection
       ELSE /\ pc' = "failed"
            /\ rejection' = "config"
            /\ UNCHANGED <<siteUrl, manifestLoaded, assets, nextRef>>
    /\ UNCHANGED <<calls, posts, langsLeft, itemIdx, written, links, unreadable>>
    /\ UNCHANGED <<slugVars, fieldVars>>

\* loadWordPressData(inputDir) (lines 131-173): loadJsonFile answers a file
\* it cannot read with a warning and [] (StoryMapper.js, lines 1033-1042),
\* and a file that is missing is not read at all: the posts are then [].
LoadWordPressData(readable, data) ==
    /\ pc = "loadWordPressData"
    /\ posts' = IF readable THEN data ELSE << >>
    /\ unreadable' = ~ readable
    /\ pc' = StageAfter(pc)
    /\ UNCHANGED <<siteUrl, langsLeft, itemIdx, written, links, rejection>>
    /\ UNCHANGED <<slugVars, assetVars, fieldVars>>

\* createOutputStructure(outputDir) (lines 239-273): directories only.
CreateOutputStructure ==
    /\ pc = "createOutputStructure"
    /\ pc' = StageAfter(pc)
    /\ UNCHANGED <<siteUrl, posts, langsLeft, itemIdx, written, links, rejection, unreadable>>
    /\ UNCHANGED <<slugVars, assetVars, fieldVars>>

\* A stage that maps a collection and saves it to one file.
WriteStage(stage, file) ==
    /\ pc = stage
    /\ written' = written \cup {file}
    /\ pc' = StageAfter(pc)
    /\ UNCHANGED <<siteUrl, posts, itemIdx, links, rejection, unreadable>>
    /\ UNCHANGED <<slugVars, assetVars, fieldVars>>

\* mapComponents (lines 401-411)
MapComponents ==
    /\ WriteStage("mapComponents", "components.json")
    /\ UNCHANGED langsLeft

\* mapAssets (lines 330-346)
MapAssets ==
    /\ WriteStage("mapAssets", "assets.json")
    /\ UNCHANGED langsLeft

\* mapDatasources (lines 351-396); then mapStoriesWithOrganization reads the
\* languages (line 281).
MapDatasources ==
    /\ WriteStage("mapDatasources", "datasources.json")
    /\ langsLeft' = ConfiguredLanguages

\* saveStories right after the first language, whatever is left to map.
AfterLanguageEager(rest) == StageAfter("mapStories")

\* The stage that follows the mapping of one language, given the languages
\* still to map: the loop goes on, saveStories comes after it (lines 283-296).
AfterLanguage(rest) == IF rest = << >> THEN StageAfter("mapStories") ELSE "mapStories"

\* One round of the posts loop of mapStories (lines 52-59) for the current
\* language: langData is the whole of wordpressData, as wordpressData has no
\* key named after a language (line 284).  A post without title makes
\* mapPost throw, which ends mapAll in its catch (lines 229-233).
MapStoriesPost ==
    /\ pc = "mapStories"
    /\ langsLeft # << >>
    /\ itemIdx <= Len(posts)
    /\ LET post == posts[itemIdx]
           language == Head(langsLeft)
           text == PostSlugText(post)
           r == GenerateUniqueSlug(text, existingSlugs, now)
       IN  IF post.title = NoTitle
           THEN /\ pc' = "failed"
                /\ rejection' = "item"
                /\ UNCHANGED <<existingSlugs, stories, itemIdx>>
           ELSE /\ existingSlugs' = r.existing
                /\ stories' = Append(stories,
                                Story(language, r.slug, text, WordPressPath(post)))
                /\ itemIdx' = itemIdx + 1
                /\ UNCHANGED <<pc, rejection>>
    /\ UNCHANGED <<now, siteUrl, posts, langsLeft, written, links, unreadable>>
    /\ UNCHANGED <<assetVars, fieldVars>>

\* organizeStories (lines 95-111): the stories of the language are stored in
\* storyData and given their path and full_slug.
OrganizeStories(all, language) ==
    [i \in 1..Len(all) |->
        IF all[i].lang = language THEN [all[i] EXCEPT !.organized = TRUE]
        ELSE all[i]]

\* The end of mapStories for the current language (lines 83-89), and the
\* step of the locale loop.
MapStoriesFinish ==
    /\ pc = "mapStories"
    /\ langsLeft # << >>
    /\ itemIdx > Len(posts)
    /\ stories' = OrganizeStories(stories, Head(langsLeft))
    /\ langsLeft' = Tail(langsLeft)
    /\ itemIdx' = 1
    /\ pc' = AfterLanguage(Tail(langsLeft))
    /\ UNCHANGED <<existingSlugs, now, siteUrl, posts, written, links, rejection, unreadable>>
    /\ UNCHANGED <<assetVars, fieldVars>>

\* The languages storyData.separate has an entry for.
StoredLanguages ==
    { ConfiguredLanguages[i] : i \in 1..(Len(ConfiguredLanguages) - Len(langsLeft)) }

\* saveStories (lines 208-243): one file for each stored language.
SaveStories ==
    /\ pc = "saveStories"
    /\ written' = written \cup { StoryFile(l) : l \in StoredLanguages }
    /\ pc' = StageAfter(pc)
    /\ UNCHANGED <<siteUrl, posts, langsLeft, itemIdx, links, rejection, unreadable>>
    /\ UNCHANGED <<slugVars, assetVars, fieldVars>>

\* assetExtractor.saveManifest() (lines 217-236 of AssetExtractor.js)
SaveManifest ==
    /\ WriteStage("saveManifest", "external-assets-manifest.json")
    /\ UNCHANGED langsLeft

\* generateMappingSummary (lines 523-567)
GenerateMappingSummary ==
    /\ WriteStage("generateMappingSummary", "mapping-summary.json")
    /\ UNCHANGED langsLeft

\* The stage about to run throws (an input or output error): mapAll rejects.
StageThrows ==
    /\ pc \notin {"done", "failed"}
    /\ pc' = "failed"
    /\ rejection' = "io"
    /\ UNCHANGED <<siteUrl, posts, langsLeft, itemIdx, written, links, unreadable>>
    /\ UNCHANGED <<slugVars, assetVars, fieldVars>>

\* createLinkObject(href, ...) for a link in the content of the story just
\* mapped, with the stories mapped so far as context.stories; the object is
\* what the story keeps, as nothing of mapAll revisits it.
ResolveLink(href) ==
    /\ pc = "mapStories"
    /\ langsLeft # << >>
    /\ itemIdx > 1
    /\ Len(links) < MaxLinks
    /\ \A i \in 1..Len(links) : links[i].story # Len(stories)
    /\ links' = Append(links,
                  [story |-> Len(stories), href |-> href,
                   link |-> CreateLinkObject(href, stories, siteUrl)])
    /\ UNCHANGED <<pc, siteUrl, posts, langsLeft, itemIdx, written, rejection, unreadable>>
    /\ UNCHANGED <<slugVars, assetVars, fieldVars>>

Next ==
    \/ \E valid \in BOOLEAN, site \in {"", SiteHost}, found \in BOOLEAN, m \in Manifests :
            Initialize(valid, site, found, m)
    \/ \E readable \in BOOLEAN, data \in PostLists : LoadWordPressData(readable, data)
    \/ CreateOutputStructure
    \/ MapComponents
    \/ MapAssets
    \/ MapDatasources
    \/ MapStoriesPost
    \/ MapStoriesFinish
    \/ SaveStories
    \/ SaveManifest
    \/ GenerateMappingSummary
    \/ StageThrows
    \/ \E href \in LinkUrls : ResolveLink(href)

Spec == Init /\ [][Next]_vars

----------------------------------------------------------------------------
(* Links and stages of a run *)

\* The stages in which the stories are final and being written, or written.
Persisting == pc \in {"saveStories", "saveManifest", "generateMappingSummary", "done"}

\* Story b is the target of link l: it is of the same language as the story
\* that holds the link, and the link's URL is its permalink.
IsPermalinkOf(l, b) ==
    /\ stories[b].lang = stories[l.story].lang
    /\ l.href.form = "abs"
    /\ l.href.host = SiteHost
    /\ l.href.segs = stories[b].wpPath

\* C8: when the run is persisting, a link in story A to the permalink of a
\* story B that was mapped after A in the same language is a story link
\* whose target is the slug B was given.
C8_ForwardReferenceResolved ==
    (Persisting /\ siteUrl = SiteHost) =>
        \A i \in 1..Len(links) : \A b \in 1..Len(stories) :
            (b > links[i].story /\ IsPermalinkOf(links[i], b)) =>
                /\ links[i].link.linktype = "story"
                /\ links[i].link.url = SlugStr(stories[b].slug)

\* No story of the list has the candidate slug of the URL.
NoStoryIn(list, href) ==
    \A b \in 1..Len(list) : ~ StoryMatches(list[b], ExtractSlugFromUrl(href))

\* No story of the run has the candidate slug of the URL.
NoStoryFor(href) == NoStoryIn(stories, href)

\* C9: when the run is persisting, a link that was detected as a story link
\* and whose candidate slug is the slug of no story is a url link that holds
\* the original URL unchanged.
C9_UnresolvableLinkDegraded ==
    Persisting =>
        \A i \in 1..Len(links) :
            (DetectLinkType(links[i].href, siteUrl) = "story" /\ NoStoryFor(links[i].href)) =>
                /\ links[i].link.linktype = "url"
                /\ links[i].link.url = links[i].href

\* The stories of a language that organizeStories has stored.
StoredStories(language) ==
    { i \in 1..Len(stories) : stories[i].lang = language /\ stories[i].organized }

\* Every post has been mapped and stored for every configured language.
AllLocalesTransformed ==
    \A k \in 1..Len(ConfiguredLanguages) :
        Cardinality(StoredStories(ConfiguredLanguages[k])) = Len(posts)

\* One step of a run: the stage stays, or the next stage of the sequence
\* begins, or the run fails; a failed run does nothing more.
StageStep ==
    /\ pc' \in {pc, StageAfter(pc), "failed"}
    /\ pc = "failed" => (pc' = "failed" /\ written' = written /\ stories' = stories)
    /\ (written' \cap StoryFiles) # (written \cap StoryFiles) => pc = "saveStories"

----------------------------------------------------------------------------
(* Failures of a run *)

\* The causes the run is to abort for before anything is written: the
\* configuration did not load, or the posts could not be read.
FatalCause == rejection = "config" \/ unreadable

\* C11: a run with a fatal cause (a configuration that fails to load, an
\* input collection that cannot be read) has written no output file.
C11_FatalWritesNothing == FatalCause => written = {}

\* Some post of the export has no title.
SomePostFails == \E i \in 1..Len(posts) : posts[i].title = NoTitle

\* C12: a post that cannot be mapped never aborts the run: mapAll does not
\* reject with that post's error.
C12_ItemFailureSkipped == ~ (pc = "failed" /\ SomePostFails /\ rejection = "item")

----------------------------------------------------------------------------
(* JavaScript values *)

\* A value carries its type in t; the other field holds its content.  A
\* string is one of: a text (its comma-separated pieces, each a sequence of
\* word tokens, " " being white space), a URL, or markup (its nodes).
JNull == [t |-> "null"]

JUndefined == [t |-> "undefined"]

JNum(n) == [t |-> "number", n |-> n]

JText(pieces) == [t |-> "string", text |-> pieces]

JUrl(url) == [t |-> "string", url |-> url]

JHtml(nodes) == [t |-> "string", html |-> nodes]

JArr(items) == [t |-> "array", items |-> items]

\* An object with the properties props (a record).
JObj(props) == [t |-> "object", props |-> props]

EmptyString == JText(<< >>)

IsString(v) == v.t = "string"

\* typeof v === 'object' for the values of the model (null is tested before).
IsObjectType(v) == v.t \in {"object", "array"}

\* The truthiness of a value: null, undefined, 0 and '' are falsy.
Truthy(v) ==
    CASE v.t \in {"null", "undefined"} -> FALSE
      [] v.t = "number" -> v.n # 0
      [] v.t = "string" ->
            IF "text" \in DOMAIN v THEN v.text # << >>
            ELSE IF "html" \in DOMAIN v THEN v.html # << >>
            ELSE TRUE
      [] OTHER -> TRUE

\* value.key
Get(v, key) ==
    IF v.t = "object" /\ key \in DOMAIN v.props THEN v.props[key] ELSE JUndefined

\* a || b
Or(a, b) == IF Truthy(a) THEN a ELSE b

\* The result of a call: it returned value, or it threw.
Ret(v) == [threw |-> FALSE, value |-> v]

Throw == [threw |-> TRUE, value |-> JUndefined]

\* try { r } catch { return fallback }
Catch(r, fallback) == IF r.threw THEN Ret(fallback) ELSE r

----------------------------------------------------------------------------
(* HtmlToRichtextTransformer *)

\* The nodes of markup: a tag, or a run of text (" " is white space).
Tag(name) == [tag |-> name]

Txt(tok) == [text |-> tok]

IsSpace(node) == "text" \in DOMAIN node /\ node.text = " "

IsText(node) == "text" \in DOMAIN node

\* The nodes of a string: a string without markup is one run of text.
Markup(v) == IF "html" \in DOMAIN v THEN v.html ELSE <<Txt("text")>>

RECURSIVE TrimStart(_)
TrimStart(seq) ==
    IF seq # << >> /\ Head(seq) = " " THEN TrimStart(Tail(seq)) ELSE seq

RECURSIVE TrimEnd(_)
TrimEnd(seq) ==
    IF seq # << >> /\ seq[Len(seq)] = " " THEN TrimEnd(SubSeq(seq, 1, Len(seq) - 1))
    ELSE seq

\* String.prototype.trim on a sequence of tokens.
Trim(seq) == TrimEnd(TrimStart(seq))

\* !html?.trim(): nothing but white space.
IsBlank(nodes) == \A i \in 1..Len(nodes) : IsSpace(nodes[i])

\* $.text().trim(): the text of the markup without its tags.
StrippedText(nodes) ==
    LET texts == SelectSeq(nodes, IsText)
    IN  Trim([i \in 1..Len(texts) |-> texts[i].text])

Doc(content) == [t |-> "doc", content |-> content]

Paragraph(text) == [type |-> "paragraph", text |-> text]

\* What htmlToStoryblokRichtext makes of the markup when it succeeds: the
\* library is not part of the repository, its document is kept opaque.
Converted(nodes) == Doc(<<[type |-> "converted", html |-> nodes]>>)

\* createFallbackRichtext (lines 140-158)
CreateFallbackRichtext(nodes) ==
    LET text == StrippedText(nodes)
    IN  IF text = << >> THEN Doc(<< >>) ELSE Doc(<<Paragraph(text)>>)

\* HtmlToRichtextTransformer.transform (lines 16-31); fails: the conversion
\* (processMediaElements, htmlToStoryblokRichtext) throws.
HtmlTransform(html, fails) ==
    IF IsBlank(Markup(html)) THEN Ret(Doc(<< >>))
    ELSE IF fails THEN Ret(CreateFallbackRichtext(Markup(html)))
    ELSE Ret(Converted(Markup(html)))

----------------------------------------------------------------------------
(* FieldTransformer: the named transforms *)

\* transformRichtext (lines 141-151)
TransformRichtext(value, fails) ==
    IF ~ Truthy(value) \/ ~ IsString(value) THEN Ret(Doc(<< >>))
    ELSE HtmlTransform(value, fails)

\* value.url || value.src || value.guid
AssetUrlOf(value) == Or(Get(value, "url"), Or(Get(value, "src"), Get(value, "guid")))

\* transformAsset (lines 160-176): AssetTransformer has no method named
\* transformSingle, so the call on line 175 throws a TypeError.
TransformAsset(value) ==
    IF ~ Truthy(value) THEN Ret(JNull)
    ELSE LET assetUrl == IF IsObjectType(value) THEN AssetUrlOf(value) ELSE value
         IN  IF ~ Truthy(assetUrl) \/ ~ IsString(assetUrl) THEN Ret(JNull)
             ELSE Throw

\* The story reference of transformReference (lines 200-205); the random
\* tail of its uuid is left out.
Reference(id, language) == [t |-> "reference", id |-> id, lang |-> language]

\* transformReference (lines 185-206)
TransformReference(value, language) ==
    IF ~ Truthy(value) THEN Ret(JNull)
    ELSE LET referenceId == IF IsObjectType(value)
                            THEN Or(Get(value, "id"), Get(value, "ID"))
                            ELSE value
         IN  IF ~ Truthy(referenceId) THEN Ret(JNull)
             ELSE Ret(Reference(referenceId, language))

\* The loop of transformReferences (lines 220-226).
RECURSIVE ReferencesLoop(_, _)
ReferencesLoop(items, language) ==
    IF items = << >> THEN << >>
    ELSE LET reference == TransformReference(Head(items), language).value
             rest == ReferencesLoop(Tail(items), language)
         IN  IF Truthy(reference) THEN <<reference>> \o rest ELSE rest

\* transformReferences (lines 215-229)
TransformReferences(value, language) ==
    IF value.t # "array" THEN Ret(JArr(<< >>))
    ELSE Ret(JArr(ReferencesLoop(value.items, language)))

\* One piece of value.split(','), trimmed, as a string.
PieceString(piece) ==
    IF Trim(piece) = << >> THEN EmptyString ELSE JText(<<Trim(piece)>>)

\* Array.isArray(value) ? value : value.split(',').map(t => t.trim())
\* (line 244), for an array or a string.
TagsOf(value) ==
    IF value.t = "array" THEN value.items
    ELSE IF "text" \in DOMAIN value
    THEN [i \in 1..Len(value.text) |-> PieceString(value.text[i])]
    ELSE <<value>>

RECURSIVE Flatten(_)
Flatten(pieces) ==
    IF pieces = << >> THEN << >> ELSE Head(pieces) \o Flatten(Tail(pieces))

\* slugify(tag.toLowerCase()) of a string (line 258).
TagSlug(tag) ==
    IF "text" \in DOMAIN tag THEN SlugifyDefault(LowerAll(Flatten(tag.text)))
    ELSE <<"text">>

\* { name: tag, slug: slugify(tag.toLowerCase()) }   (lines 256-259)
TagEntry(tag) == [t |-> "tag", name |-> tag, slug |-> TagSlug(tag)]

\* transformTags (lines 238-261) without config.createDatasource: split is
\* a method of strings only, toLowerCase too, so a truthy value that is no
\* array and no string, or an array element that is no string, throws.
TransformTags(value) ==
    IF ~ Truthy(value) THEN Ret(JArr(<< >>))
    ELSE IF value.t \notin {"array", "string"} THEN Throw
    ELSE LET tags == TagsOf(value)
         IN  IF \E i \in 1..Len(tags) : ~ IsString(tags[i]) THEN Throw
             ELSE Ret(JArr([i \in 1..Len(tags) |-> TagEntry(tags[i])]))

\* transformDatetime (lines 270-293): of the values of the model only a
\* number makes a valid Date; its ISO string is kept opaque.
TransformDatetime(value) ==
    IF ~ Truthy(value) THEN Ret(EmptyString)
    ELSE IF value.t = "number" THEN Ret([t |-> "string", iso |-> value.n])
    ELSE Ret(EmptyString)

\* { linktype: 'url', url: '', cached_url: '' }   (lines 304, 313)
EmptyLink == [t |-> "link", linktype |-> "url", url |-> EmptyString]

\* value.url || value.href || value.link
LinkUrlOf(value) == Or(Get(value, "url"), Or(Get(value, "href"), Get(value, "link")))

\* transformLink (lines 302-317): LinkTransformer has no method named
\* transform, so the call on line 316 throws a TypeError.
TransformLink(value) ==
    IF ~ Truthy(value) THEN Ret(EmptyLink)
    ELSE LET linkUrl == IF IsObjectType(value) THEN LinkUrlOf(value) ELSE value
         IN  IF ~ Truthy(linkUrl) \/ ~ IsString(linkUrl) THEN Ret(EmptyLink)
             ELSE Throw

\* transformString (lines 326-350) without options: String(value).
TransformString(value) ==
    IF value.t \in {"null", "undefined"} THEN Ret(EmptyString)
    ELSE IF IsString(value) THEN Ret(value)
    ELSE Ret([t |-> "string", of |-> value])

----------------------------------------------------------------------------
(* FieldTransformer.transform *)

TransformerNames ==
    {"richtext", "asset", "reference", "references", "tags", "datetime", "link", "string"}

\* The forms of a transformer: none, a name, { transformer: name },
\* a function, { transformer: function }, or anything else (a number).
NoTransformer == [k |-> "none"]

Named(name) == [k |-> "string", name |-> name]

Fn(throws) == [k |-> "function", throws |-> throws]

ObjectOf(inner) == [k |-> "object", inner |-> inner]

OtherTransformer == [k |-> "other"]

\* What a user function returns when it returns.
Computed == JText(<< <<"computed">> >>)

\* The context of the call: context.language, and whether the richtext
\* conversion fails.
DefaultLang == "en"

\* applyStringTransformer (lines 74-110)
ApplyStringTransformer(value, name, fails) ==
    CASE name = "richtext" -> TransformRichtext(value, fails)
      [] name = "asset" -> TransformAsset(value)
      [] name = "reference" -> TransformReference(value, DefaultLang)
      [] name = "references" -> TransformReferences(value, DefaultLang)
      [] name = "tags" -> TransformTags(value)
      [] name = "datetime" -> TransformDatetime(value)
      [] name = "link" -> TransformLink(value)
      [] name = "string" -> TransformString(value)
      [] OTHER -> Ret(value)

\* applyFunctionTransformer (lines 119-132)
ApplyFunctionTransformer(value, fn) ==
    Catch(IF fn.throws THEN Throw ELSE Ret(Computed), value)

\* The body of the try block of transform (lines 33-58).
TransformBody(value, transformer, fails) ==
    CASE transformer.k = "string" -> ApplyStringTransformer(value, transformer.name, fails)
      [] transformer.k = "object" ->
            IF transformer.inner.k = "string"
            THEN ApplyStringTransformer(value, transformer.inner.name, fails)
            ELSE IF transformer.inner.k = "function"
            THEN ApplyFunctionTransformer(value, transformer.inner)
            ELSE Ret(value)
      [] transformer.k = "function" -> ApplyFunctionTransformer(value, transformer)
      [] OTHER -> Ret(value)

\* transform without its catch block: the error leaves the call.
TransformUncaught(value, transformer, fails) ==
    IF transformer.k = "none" \/ value.t \in {"null", "undefined"} THEN Ret(value)
    ELSE TransformBody(value, transformer, fails)

\* transform (lines 28-64)
Transform(value, transformer, fails) ==
    IF transformer.k = "none" \/ value.t \in {"null", "undefined"} THEN Ret(value)
    ELSE Catch(TransformBody(value, transformer, fails), value)

----------------------------------------------------------------------------
(* StoryMapper.mapContentFields: the configured field mappings *)

\* A configured field: its configuration and the value extractValue finds
\* for it.  The configuration is a transformer name, a function, an object
\* { source, transformer }, or a direct value.
FieldValue(field, fails) ==
    CASE field.config.k = "string" -> Transform(field.source, field.config, fails)
      [] field.config.k = "function" ->
            IF field.config.throws THEN Throw ELSE Ret(Computed)
      [] field.config.k = "object" ->
            Transform(field.source, field.config.inner, fails)
      [] OTHER -> Ret(field.source)

\* The loop over fieldsConfig (lines 506-564): an error of one field is
\* caught and the field set to null.
RECURSIVE ConfiguredFieldsLoop(_, _)
ConfiguredFieldsLoop(fields, fails) ==
    IF fields = << >> THEN Ret(<< >>)
    ELSE LET mapped == Catch(FieldValue(Head(fields), fails), JNull)
             rest == ConfiguredFieldsLoop(Tail(fields), fails)
         IN  IF mapped.threw \/ rest.threw THEN Throw
             ELSE Ret(<<mapped.value>> \o rest.value)

\* mapContentFields (lines 462-578): the values of the configured fields,
\* in the order of fieldsConfig.
MapContentFields(fields, fails) == ConfiguredFieldsLoop(fields, fails)

----------------------------------------------------------------------------
(* The calls under study *)

PageUrl == AbsUrl(SiteHost, << <<"coffee">> >>, {})

ImageUrl == AbsUrl(ExternalHost, << <<"cup.jpg">> >>, {})

\* The elements of arrays.
ItemValues ==
    { JNull, JNum(7), JText(<< <<"abc">> >>), JObj([id |-> JNum(3)]) }

ArrayValues == { JArr(items) : items \in UNION { [1..n -> ItemValues] : n \in 0..MaxItems } }

\* The field values: null, undefined, numbers, '', "Red, Coffee", "abc",
\* "12", URLs, markup ("<p>Hello</p>", "<img>", " "), arrays and objects.
FieldValues ==
    { JNull, JUndefined, JNum(0), JNum(7), EmptyString,
      JText(<< <<"Red">>, <<" ", "Coffee">> >>),
      JText(<< <<"abc">> >>), JText(<< <<"12">> >>),
      JUrl(PageUrl), JUrl(ImageUrl),
      JHtml(<<Tag("p"), Txt("Hello"), Tag("/p")>>),
      JHtml(<<Tag("img")>>),
      JHtml(<<Txt(" ")>>),
      JObj([id |-> JNum(7)]), JObj([id |-> JText(<< <<"abc">> >>)]),
      JObj([url |-> JUrl(ImageUrl)]), JObj([href |-> JUrl(PageUrl)]),
      JObj([other |-> JNum(1)]) }
    \cup ArrayValues

FunctionTransformers == { Fn(throws) : throws \in BOOLEAN }

NamedTransformers == { Named(name) : name \in TransformerNames \cup {"unknown"} }

Transformers ==
    {NoTransformer, OtherTransformer} \cup NamedTransformers \cup FunctionTransformers
    \cup { ObjectOf(inner) : inner \in {Named("tags"), Named("link"), OtherTransformer}
                                       \cup FunctionTransformers }

TransformCalls ==
    { [op |-> "transform", value |-> v, transformer |-> tr] :
        v \in FieldValues, tr \in Transformers }

\* The configurations of a field of fieldsConfig.
FieldConfigs ==
    { Named("link"), Named("string"), Fn(TRUE), Fn(FALSE),
      ObjectOf(Named("tags")), OtherTransformer }

ConfiguredFields ==
    [config : FieldConfigs, source : { JText(<< <<"abc">> >>), JNum(7) }]

MapContentFieldsCalls ==
    { [op |-> "mapContentFields", fields |-> fs] :
        fs \in UNION { [1..n -> ConfiguredFields] : n \in 1..MaxFields } }

\* fieldTransformer.transform(value, transformer, context)
TransformField(fails) ==
    /\ input.op = "transform"
    /\ outcome = NoCall
    /\ outcome' = [op |-> "transform", fails |-> fails,
                   result |-> Transform(input.value, input.transformer, fails)]
    /\ UNCHANGED input
    /\ UNCHANGED <<slugVars, assetVars, runVars>>

\* storyMapper.mapContentFields(wpContent, content, contentType, ...)
MapFields(fails) ==
    /\ input.op = "mapContentFields"
    /\ outcome = NoCall
    /\ outcome' = [op |-> "mapContentFields", fails |-> fails,
                   result |-> MapContentFields(input.fields, fails)]
    /\ UNCHANGED input
    /\ UNCHANGED <<slugVars, assetVars, runVars>>

\* The URLs given to createLinkObject: pages, the admin area, a category
\* archive and an attachment page of the site, a page and a file elsewhere,
\* a file of the site, a relative URL, a mail address, a phone number and
\* an anchor.
CalledUrls ==
    { AbsUrl(SiteHost, << <<"coffee">> >>, {}),
      AbsUrl(SiteHost, << <<"tea">> >>, {"preview"}),
      AbsUrl(SiteHost, << <<"wp-admin">>, <<"edit">> >>, {}),
      AbsUrl(SiteHost, << <<"wp-admin">>, <<"cup.jpg">> >>, {}),
      AbsUrl(SiteHost, << <<"category">>, <<"coffee">> >>, {}),
      AbsUrl(SiteHost, << >>, {"attachment_id"}),
      AbsUrl(SiteHost, << <<"cup.jpg">> >>, {}),
      AbsUrl(ExternalHost, << <<"mug">> >>, {}),
      ImageUrl,
      PathnameStr(<< <<"coffee">> >>),
      Str("mailto", "", << >>, {}),
      Str("tel", "", << >>, {}),
      Str("anchor", "", << >>, {}) }

\* A story as organizeStories leaves it.
Organized(story) == [story EXCEPT !.organized = TRUE]

\* The values of context.stories.
ContextStories ==
    { << >>,
      << Organized(Story("en", <<"coffee">>, <<"coffee">>, << <<"coffee">> >>)) >>,
      << Story("en", <<"tea">>, <<"tea">>, << <<"tea">> >>) >>,
      << Organized(Story("en", <<"tea">>, <<"tea">>, << >>)),
         Organized(Story("es", <<"coffee", "1">>, <<"coffee">>, << <<"coffee">> >>)) >> }

CreateLinkCalls ==
    { [op |-> "createLinkObject", url |-> u, site |-> site, stories |-> ctx] :
        u \in CalledUrls, site \in {"", SiteHost}, ctx \in ContextStories }

\* linkTransformer.createLinkObject(url, text, target, context)
CreateLink ==
    /\ input.op = "createLinkObject"
    /\ outcome = NoCall
    /\ outcome' = [op |-> "createLinkObject",
                   link |-> CreateLinkObject(input.url, input.stories, input.site)]
    /\ UNCHANGED input
    /\ UNCHANGED <<slugVars, assetVars, runVars>>

\* applyPathConfiguration (StoryMapper.js:116-151).  A path and a pattern
\* of the folder mapping are sequences of path segments; the folder mapping
\* is the list of the entries of config.stories.folderMapping in the order
\* of Object.entries.
MaxDepth == 2
MaxEntries == 2

Segments == {"blog", "news"}

Paths == UNION { [1..n -> Segments] : n \in 1..MaxDepth }

\* The folder an entry maps its pattern to.
FolderFor(pattern) == <<"to">> \o pattern

NoFolder == << >>

TypeFolders == {NoFolder, <<"articles">>}

FolderMappings ==
    { m \in UNION { [1..n -> [pattern : Paths]] : n \in 0..MaxEntries } :
        \A i, j \in 1..Len(m) : m[i].pattern = m[j].pattern => i = j }

\* wpPath.includes(wpFolderPattern)
Includes(wpPath, pattern) ==
    \E k \in 0..(Len(wpPath) - Len(pattern)) :
        SubSeq(wpPath, k + 1, k + Len(pattern)) = pattern

\* wpPath.startsWith(wpFolderPattern)
StartsWith(wpPath, pattern) ==
    /\ Len(pattern) <= Len(wpPath)
    /\ SubSeq(wpPath, 1, Len(pattern)) = pattern

\* The loop over Object.entries(this.folderMapping) (lines 123-128), from
\* entry i on: the folder of the first entry whose pattern the path
\* includes.
RECURSIVE FolderMappingLoop(_, _, _)
FolderMappingLoop(folderMapping, wpPath, i) ==
    IF i > Len(folderMapping) THEN NoFolder
    ELSE IF Includes(wpPath, folderMapping[i].pattern)
    THEN FolderFor(folderMapping[i].pattern)
    ELSE FolderMappingLoop(folderMapping, wpPath, i + 1)

\* targetFolder of applyPathConfiguration (lines 121-135).
TargetFolder(folderMapping, wpPath, contentTypeFolder) ==
    LET mapped == FolderMappingLoop(folderMapping, wpPath, 1)
    IN  IF mapped # NoFolder THEN mapped ELSE contentTypeFolder

ApplyPathCalls ==
    { [op |-> "applyPathConfiguration", folderMapping |-> m, wpPath |-> p,
       contentTypeFolder |-> f] :
        m \in FolderMappings, p \in Paths, f \in TypeFolders }

ApplyPathConfiguration ==
    /\ input.op = "applyPathConfiguration"
    /\ outcome = NoCall
    /\ outcome' = [op |-> "applyPathConfiguration",
                   targetFolder |-> TargetFolder(input.folderMapping, input.wpPath,
                                                 input.contentTypeFolder)]
    /\ UNCHANGED input
    /\ UNCHANGED <<slugVars, assetVars, runVars>>

\* mapStories(wordpressData, language) (StoryMapper.js:37-90) as to which
\* items it maps.  wordpressData gives for each collection the number of
\* its items; contentTypes is the list of the keys of the configured
\* content types in the order of Object.entries; a story is named by the
\* collection and the place of the item it was mapped from.
MaxCollection == 1

Collections == {"users", "posts", "pages", "recipe"}

ContentTypeKeys == {"articles", "pages", "recipe"}

ContentTypeLists ==
    { k \in UNION { [1..n -> ContentTypeKeys] : n \in 0..2 } :
        \A i, j \in 1..Len(k) : k[i] = k[j] => i = j }

MapStoriesCalls ==
    { [op |-> "mapStories", wordpressData |-> d, contentTypes |-> k, authorsAsStories |-> a] :
        d \in [Collections -> 0..MaxCollection], k \in ContentTypeLists, a \in BOOLEAN }

\* The stories of one loop over wordpressData[collection]; a collection
\* that wordpressData does not have gives none.
StoriesOf(wordpressData, collection) ==
    IF collection \in DOMAIN wordpressData
    THEN [i \in 1..wordpressData[collection] |-> [collection |-> collection, item |-> i]]
    ELSE << >>

\* The loop over Object.entries(contentTypes) (lines 72-81), from entry k on.
RECURSIVE CustomPostTypesLoop(_, _, _)
CustomPostTypesLoop(wordpressData, contentTypes, k) ==
    IF k > Len(contentTypes) THEN << >>
    ELSE StoriesOf(wordpressData, contentTypes[k])
            \o CustomPostTypesLoop(wordpressData, contentTypes, k + 1)

\* The stories mapStories collects (lines 44-81).
MappedStories(wordpressData, contentTypes, authorsAsStories) ==
    (IF authorsAsStories THEN StoriesOf(wordpressData, "users") ELSE << >>)
        \o StoriesOf(wordpressData, "posts")
        \o StoriesOf(wordpressData, "pages")
        \o CustomPostTypesLoop(wordpressData, contentTypes, 1)

MapStoriesCall ==
    /\ input.op = "mapStories"
    /\ outcome = NoCall
    /\ outcome' = [op |-> "mapStories",
                   stories |-> MappedStories(input.wordpressData, input.contentTypes,
                                             input.authorsAsStories)]
    /\ UNCHANGED input
    /\ UNCHANGED <<slugVars, assetVars, runVars>>

\* The end of mapStories (StoryMapper.js:83-89): organizeStories, then the
\* afterStoryMapping hooks.  The story objects live in a heap (a sequence;
\* an object's reference is its place), arrays hold references.  A hook is
\* one of: "mutate" changes the stories it is given in place and returns
\* the same array; "map" returns stories.map(story => ({ ...story,
\* custom_field: 'processed' })), a new array of new objects; "filter"
\* returns a new array without the first story.
MaxHooks == 2

HookKinds == {"mutate", "map", "filter"}

HookLists == UNION { [1..n -> HookKinds] : n \in 0..MaxHooks }

\* The story mapped from item i, without custom_field.
MappedStory(i) == [item |-> i, custom_field |-> FALSE]

Processed(story) == [story EXCEPT !.custom_field = TRUE]

\* hook(result, context, config) for a hook of the given kind.
CallHook(kind, array, heap) ==
    CASE kind = "mutate" ->
            [array |-> array,
             heap |-> [r \in 1..Len(heap) |->
                        IF \E i \in 1..Len(array) : array[i] = r
                        THEN Processed(heap[r]) ELSE heap[r]]]
      [] kind = "map" ->
            [array |-> [i \in 1..Len(array) |-> Len(heap) + i],
             heap |-> heap \o [i \in 1..Len(array) |-> Processed(heap[array[i]])]]
      [] OTHER ->
            [array |-> IF array = << >> THEN array ELSE Tail(array), heap |-> heap]

\* runHooks(event, data, context) (lines 1349-1358), from hook k on.
RECURSIVE RunHooks(_, _, _, _)
RunHooks(hooks, k, array, heap) ==
    IF k > Len(hooks) THEN [array |-> array, heap |-> heap]
    ELSE LET r == CallHook(hooks[k], array, heap)
         IN  RunHooks(hooks, k + 1, r.array, r.heap)

\* The objects an array of references holds.
Deref(array, heap) == [i \in 1..Len(array) |-> heap[array[i]]]

\* organizeStories(stories, language) pushes the stories into storyData
\* (lines 96-105); the hooks run after it and their result is returned.
FinishMapStories(count, hooks) ==
    LET mapped == [i \in 1..count |-> i]
        heap == [i \in 1..count |-> MappedStory(i)]
        storyData == mapped
        final == RunHooks(hooks, 1, mapped, heap)
    IN  [op |-> "afterStoryMapping",
         returned |-> Deref(final.array, final.heap),
         storyData |-> Deref(storyData, final.heap)]

HookCalls ==
    { [op |-> "afterStoryMapping", count |-> n, hooks |-> h] :
        n \in 0..MaxItems, h \in HookLists }

AfterStoryMapping ==
    /\ input.op = "afterStoryMapping"
    /\ outcome = NoCall
    /\ outcome' = FinishMapStories(input.count, input.hooks)
    /\ UNCHANGED input
    /\ UNCHANGED <<slugVars, assetVars, runVars>>

\* extractLinksFromContent and transformContent (part_004:20-41, 357-387).
\* The content is the list of its a elements, each with its href
\* (Undefined without one).
MaxAnchors == 2

Hrefs == {Undefined, PageUrl, ImageUrl}

ContentCalls ==
    { [op |-> o, anchors |-> a] :
        o \in {"extractLinksFromContent", "transformContent"},
        a \in UNION { [1..n -> Hrefs] : n \in 0..MaxAnchors } }

\* The a elements whose callback reaches `await this.createLinkObject(...)`.
WithHref(anchors) == { i \in 1..Len(anchors) : anchors[i] # Undefined }

\* The entry the callback pushes for an href (lines 372-380).
LinkEntry(href) == [original |-> href, storyblok |-> CreateLinkObject(href, << >>, "")]

\* extractLinksFromContent up to its return: $('a').each calls the async
\* callback for every element and drops the promises; each callback runs
\* up to its await and is suspended; links, still empty, is returned.
\* `resolved` is what the array holds when the returned promise resolves,
\* `links` what it holds now.
ExtractLinksFromContent ==
    /\ input.op = "extractLinksFromContent"
    /\ outcome = NoCall
    /\ LET links0 == << >>
           suspended == WithHref(input.anchors)
       IN  outcome' = [op |-> "extractLinksFromContent", resolved |-> links0,
                       unfinished |-> suspended, links |-> links0,
                       pending |-> suspended]
    /\ UNCHANGED input
    /\ UNCHANGED <<slugVars, assetVars, runVars>>

\* transformContent up to its return: the callbacks are suspended as above
\* and $.html() writes out the document, in which no attribute is set yet.
\* html[i] tells whether a element i of the returned string has the
\* attribute data-storyblok-link, document[i] whether the element of the
\* cheerio document has it.
TransformContent ==
    /\ input.op = "transformContent"
    /\ outcome = NoCall
    /\ LET document0 == [i \in 1..Len(input.anchors) |-> FALSE]
           suspended == WithHref(input.anchors)
       IN  outcome' = [op |-> "transformContent", html |-> document0,
                       unfinished |-> suspended, document |-> document0,
                       pending |-> suspended]
    /\ UNCHANGED input
    /\ UNCHANGED <<slugVars, assetVars, runVars>>

\* The callback of a element i resumes after its await and does the rest:
\* links.push(...) or $link.attr('data-storyblok-link', ...).
LinkCallbackResumes(i) ==
    /\ outcome.op \in {"extractLinksFromContent", "transformContent"}
    /\ i \in outcome.pending
    /\ outcome' =
        IF outcome.op = "extractLinksFromContent"
        THEN [outcome EXCEPT !.pending = @ \ {i},
                             !.links = Append(@, LinkEntry(input.anchors[i]))]
        ELSE [outcome EXCEPT !.pending = @ \ {i},
                             !.document[i] = TRUE]
    /\ UNCHANGED input
    /\ UNCHANGED <<slugVars, assetVars, runVars>>

InitField ==
    /\ InitStoryMapper /\ InitAssetExtractor /\ InitOrchestrator
    /\ input \in TransformCalls \cup MapContentFieldsCalls \cup CreateLinkCalls
                  \cup ApplyPathCalls \cup MapStoriesCalls
                  \cup HookCalls \cup ContentCalls
    /\ outcome = NoCall

NextField ==
    \/ \E fails \in BOOLEAN : TransformField(fails)
    \/ \E fails \in BOOLEAN : MapFields(fails)
    \/ CreateLink
    \/ ApplyPathConfiguration
    \/ MapStoriesCall
    \/ AfterStoryMapping
    \/ ExtractLinksFromContent
    \/ TransformContent
    \/ \E i \in 1..MaxAnchors : LinkCallbackResumes(i)

SpecField == InitField /\ [][NextField]_vars

----------------------------------------------------------------------------
(* Field transforms: properties *)

\* The call under study was transform with the named transformer, given
\* directly or as { transformer: name }.
TransformedAs(name) ==
    /\ outcome.op = "transform"
    /\ \/ input.transformer = Named(name)
       \/ input.transformer = ObjectOf(Named(name))

\* C13: transform never throws, whatever the value and the transformer (a
\* user function that throws included); and mapContentFields produces the
\* item with every configured field: null for a field whose mapping failed,
\* the mapped value for every other field.
C13_TransformNeverThrows ==
    /\ outcome.op = "transform" => ~ outcome.result.threw
    /\ outcome.op = "mapContentFields" =>
        /\ ~ outcome.result.threw
        /\ Len(outcome.result.value) = Len(input.fields)
        /\ \A i \in 1..Len(input.fields) :
            LET alone == FieldValue(input.fields[i], outcome.fails)
            IN  outcome.result.value[i] = IF alone.threw THEN JNull ELSE alone.value

\* An item with two configured fields, the first a function that throws,
\* the second a string transform: the first is null, the second mapped.
C13_Witness ==
    /\ outcome.op = "mapContentFields"
    /\ Len(input.fields) = 2
    /\ input.fields[1].config = Fn(TRUE)
    /\ input.fields[2].config = Named("string")
    /\ ~ outcome.result.threw
    /\ outcome.result.value[1] = JNull
    /\ outcome.result.value[2] = input.fields[2].source

\* C14: the richtext transform of markup that is not blank, when the
\* conversion fails, does not throw and returns a document holding a
\* paragraph with the text of the markup, tags stripped.
C14_RichtextFallback ==
    ( /\ TransformedAs("richtext")
      /\ "html" \in DOMAIN input.value
      /\ ~ IsBlank(input.value.html)
      /\ outcome.fails )
    => /\ ~ outcome.result.threw
       /\ outcome.result.value.t = "doc"
       /\ \E i \in 1..Len(outcome.result.value.content) :
            outcome.result.value.content[i] = Paragraph(StrippedText(input.value.html))

\* C15: the tags transform, called through transform, does not throw and
\* returns a list; for a value that is neither an array nor a string the
\* list is empty.
C15_TagsReturnsList ==
    TransformedAs("tags") =>
        /\ ~ outcome.result.threw
        /\ outcome.result.value.t = "array"
        /\ input.value.t \notin {"array", "string"} => outcome.result.value = JArr(<< >>)

\* C16: the references transform returns the references of the numeric ids
\* of its input, in input order, and nothing for any other element; the
\* reference transform returns null for an id that is missing or not
\* numeric.
C16_ReferencesOfNumericIds ==
    LET IdOf(v) == IF IsObjectType(v) THEN Or(Get(v, "id"), Get(v, "ID")) ELSE v
        IsNumeric(v) ==
            \/ v.t = "number"
            \/ v.t = "string" /\ "text" \in DOMAIN v /\ Len(v.text) = 1
                 /\ Len(v.text[1]) = 1 /\ v.text[1][1] \in Digits \cup {"12"}
        HasNumericId(v) == IsNumeric(IdOf(v))
        RefOf(v) == Reference(IdOf(v), DefaultLang)
    IN  /\ (TransformedAs("references") /\ input.value.t = "array") =>
              LET kept == SelectSeq(input.value.items, HasNumericId)
              IN  outcome.result.value = JArr([i \in 1..Len(kept) |-> RefOf(kept[i])])
        /\ (TransformedAs("reference") /\ ~ HasNumericId(input.value)) =>
              outcome.result.value \in {JNull, JUndefined}

\* C17: the asset transform returns null for an empty value, and for any
\* other value either null or the reference object of an asset descriptor.
C17_AssetNullOrReference ==
    TransformedAs("asset") =>
        /\ ~ outcome.result.threw
        /\ outcome.result.value.t \in {"null", "undefined", "asset"}
        /\ ~ Truthy(input.value) => outcome.result.value.t \in {"null", "undefined"}

\* The URL a link value carries: the string itself, or url / href / link.
CarriedUrl(v) == IF IsObjectType(v) THEN LinkUrlOf(v) ELSE v

\* C18: the link transform of a value that carries a non-empty URL returns
\* a link descriptor whose linktype is story, asset, url or email.
C18_LinkDelegates ==
    ( /\ TransformedAs("link")
      /\ IsString(CarriedUrl(input.value))
      /\ Truthy(CarriedUrl(input.value)) )
    => /\ outcome.result.value.t = "link"
       /\ outcome.result.value.linktype \in {"story", "asset", "url", "email"}

----------------------------------------------------------------------------
(* Link resolution: properties *)

\* C19: the kind of a URL is given by the first rule that matches, in the
\* order: mailto -> email, anchor -> url, asset extension -> asset, host of
\* the site or relative URL -> story, otherwise url; no other rule decides.
C19_ClassificationOrder ==
    outcome.op = "createLinkObject" =>
        outcome.link.linktype =
            IF input.url.form = "mailto" THEN "email"
            ELSE IF input.url.form = "anchor" THEN "url"
            ELSE IF IsAssetUrl(input.url) THEN "asset"
            ELSE IF IsInternalUrl(input.url, input.site) THEN "story"
            ELSE "url"

\* C20: the url of a story link whose candidate slug is the slug (or
\* full_slug) of a story of context.stories is that story's full_slug, or
\* its slug.
C20_StoryLinkLookup ==
    ( /\ outcome.op = "createLinkObject"
      /\ outcome.link.linktype = "story"
      /\ ~ NoStoryIn(input.stories, input.url) )
    => \E i \in 1..Len(input.stories) :
          /\ StoryMatches(input.stories[i], ExtractSlugFromUrl(input.url))
          /\ outcome.link.url \in
                {FullSlug(input.stories[i]), SlugStr(input.stories[i].slug)}

\* C21: a link of kind url whose URL is an anchor or an absolute URL of
\* another host, and carries no WordPress query parameter, has that URL,
\* unchanged, as its url.
C21_UrlPassthrough ==
    ( /\ outcome.op = "createLinkObject"
      /\ outcome.link.linktype = "url"
      /\ \/ input.url.form = "anchor"
         \/ input.url.form = "abs" /\ input.url.host # SiteHost
      /\ input.url.query \cap WordPressParams = {} )
    => outcome.link.url = input.url


\* The entries of the folder mapping whose pattern is a prefix of the path.
PrefixEntries(folderMapping, wpPath) ==
    { i \in 1..Len(folderMapping) : StartsWith(wpPath, folderMapping[i].pattern) }

\* C22: the target folder is the folder of the entry with the longest
\* pattern that is a prefix of the source path, the first such entry among
\* those of equal length; without a matching entry it is the folder of the
\* content type.
C22_LongestPrefixFolder ==
    outcome.op = "applyPathConfiguration" =>
        LET matching == PrefixEntries(input.folderMapping, input.wpPath)
        IN  IF matching = {}
            THEN outcome.targetFolder = input.contentTypeFolder
            ELSE \E i \in matching :
                    /\ \A j \in matching :
                        \/ Len(input.folderMapping[j].pattern) < Len(input.folderMapping[i].pattern)
                        \/ Len(input.folderMapping[j].pattern) = Len(input.folderMapping[i].pattern)
                           /\ i <= j
                    /\ outcome.targetFolder = FolderFor(input.folderMapping[i].pattern)


----------------------------------------------------------------------------
(* The summary of a run *)

\* The object generateMappingSummary writes to mapping-summary.json
\* (WordPressToStoryblokMapper.js:526-553), as far as it counts events of
\* the run: stats.totalProcessed is set in the constructor and never
\* after; stats.errors gets an entry only in the catch of mapAll, which
\* rethrows, and stats.warnings never, so both are empty when the summary
\* is written; the stories are those getSummary counts in storyData, the
\* external assets those of the registry.
MappingSummary ==
    [ mapping |->
        [ stories |-> [ totalStories |->
                          Cardinality({ i \in 1..Len(stories) : stories[i].organized }) ],
          assets |-> [ external |-> [ totalAssets |-> Len(assets) ] ] ],
      statistics |-> [ totalProcessed |-> 0, errors |-> 0, warnings |-> 0 ] ]

SummaryWritten == "mapping-summary.json" \in written

\* The links of the run that were detected as story links and found no
\* story.
UnresolvedLinks ==
    { i \in 1..Len(links) :
        DetectLinkType(links[i].href, siteUrl) = "story" /\ NoStoryFor(links[i].href) }

\* The asset downloads of the run that failed.
FailedDownloads ==
    { c \in 1..Len(calls) : Returned(c) /\ calls[c].attempts > 0 /\ calls[c].res = Null }

\* C23: the summary a run has written holds the number of skipped items,
\* the number of unresolved links and the number of failed asset downloads
\* of the run.
C23_SummaryCountsEvents ==
    SummaryWritten =>
        /\ {"skipped", "unresolvedLinks", "failedDownloads"}
              \subseteq DOMAIN MappingSummary.statistics
        /\ MappingSummary.statistics.unresolvedLinks = Cardinality(UnresolvedLinks)
        /\ MappingSummary.statistics.failedDownloads = Cardinality(FailedDownloads)


----------------------------------------------------------------------------
(* Two runs of mapAll on the same export *)

\* The export of the two runs: its posts (slug and title) and, in the order
\* of their appearance, the image URLs of their content.  One language is
\* configured.
MaxExport == 2

ExportPosts == [slug : SourceSlugs, title : { <<>>, <<"Coffee">> }]

Exports ==
    { [op |-> "mapAllTwice", posts |-> p, images |-> u] :
        p \in UNION { [1..n -> ExportPosts] : n \in 0..MaxExport },
        u \in UNION { [1..n -> Urls] : n \in 0..MaxExport } }

\* The descriptors of a registry: id and origin URL.
Descriptors(map) ==
    { [id |-> map[i].value.id, url |-> map[i].value.url] : i \in 1..Len(map) }

\* What saveManifest writes (AssetExtractor.js:217-236): the entries of the
\* registry.
SavedManifest(map) ==
    [i \in 1..Len(map) |-> [id |-> map[i].value.id, url |-> map[i].value.url]]

\* The progress of the two runs: the run under way (3 when both are over)
\* and what the first run produced.
FirstRun == [op |-> "mapAllTwice", run |-> 1, slugs |-> << >>, registry |-> {}]

InitTwice ==
    /\ InitStoryMapper /\ InitAssetExtractor /\ InitOrchestrator
    /\ input \in Exports
    /\ outcome = FirstRun

\* mapPost for the next post of the export (StoryMapper.js:302).
TwiceMapPost ==
    /\ input.op = "mapAllTwice"
    /\ outcome.run \in {1, 2}
    /\ Len(stories) < Len(input.posts)
    /\ AssignStory(DefaultLanguage, PostSlugText(input.posts[Len(stories) + 1]))

\* extractAsset for the next image of the export; the calls may overlap.
TwiceExtractAsset ==
    /\ input.op = "mapAllTwice"
    /\ outcome.run \in {1, 2}
    /\ Len(calls) < Len(input.images)
    /\ ExtractAssetBegin(input.images[Len(calls) + 1])

\* Every post is mapped, every extractAsset has returned.
RunComplete ==
    /\ Len(stories) = Len(input.posts)
    /\ Len(calls) = Len(input.images)
    /\ InFlight = {}

\* The first run ends with saveManifest; the second starts as a new
\* process: a new StoryMapper, a new AssetExtractor whose registry
\* loadExistingManifest restores from the manifest of the first.
SecondRunStarts ==
    /\ input.op = "mapAllTwice"
    /\ outcome.run = 1
    /\ RunComplete
    /\ outcome' = [outcome EXCEPT !.run = 2,
                                  !.slugs = [i \in 1..Len(stories) |-> stories[i].slug],
                                  !.registry = Descriptors(assets)]
    /\ existingSlugs' = {}
    /\ stories' = << >>
    /\ calls' = << >>
    /\ assets' = RestoredMap(SavedManifest(assets), nextRef)
    /\ nextRef' = nextRef + Len(assets)
    /\ UNCHANGED <<now, manifestLoaded, input>>
    /\ UNCHANGED runVars

SecondRunEnds ==
    /\ input.op = "mapAllTwice"
    /\ outcome.run = 2
    /\ RunComplete
    /\ outcome' = [outcome EXCEPT !.run = 3]
    /\ UNCHANGED <<slugVars, assetVars, runVars, input>>

NextTwice ==
    \/ TwiceMapPost
    \/ TwiceExtractAsset
    \/ \E c \in 1..MaxCalls, id \in GeneratedIds : DownloadSucceeds(c, id)
    \/ \E c \in 1..MaxCalls : DownloadFails(c)
    \/ Tick
    \/ SecondRunStarts
    \/ SecondRunEnds

SpecTwice == InitTwice /\ [][NextTwice]_vars

\* C24: in the second run every post is given the slug the first run gave
\* it, no asset is downloaded, and the descriptors of the registry are those
\* the first run left.
C24_RoundTripIdempotent ==
    (outcome.op = "mapAllTwice" /\ outcome.run \in {2, 3}) =>
        /\ \A i \in 1..Len(stories) : stories[i].slug = outcome.slugs[i]
        /\ \A c \in 1..Len(calls) : calls[c].attempts = 0
        /\ Descriptors(assets) = outcome.registry


----------------------------------------------------------------------------
(* HtmlToRichtextTransformer.processMediaElements *)

MaxImages == 2

\* The src of an img element: the scheme it starts with ("" for a relative
\* URL), whether it contains /wp-content/uploads/, and the file.
Src(scheme, uploads, file) == [scheme |-> scheme, uploads |-> uploads, file |-> file]

Sources ==
    { Src(s, u, "cup.jpg") : s \in {"https", "http", "", "data"}, u \in BOOLEAN }

\* isExternalAsset without the test for the uploads directory.
IsExternalAssetAnyHost(src) == src.scheme \in {"http", "https"}

\* isExternalAsset(src, context) (part_003:122-135)
IsExternalAsset(src) ==
    IF src.scheme \notin {"http", "https"} THEN FALSE
    ELSE IF src.uploads THEN FALSE
    ELSE TRUE

\* assetInfo.filename where assetInfo is the promise extractAsset returned:
\* a promise has no such property.
NoFilename == "<undefined>"

\* $img.attr('src', value): with an undefined value the call reads the
\* attribute and changes nothing.
SetAttr(old, value) == IF value = NoFilename THEN old ELSE value

MediaCalls ==
    { [op |-> "processMediaElements", images |-> i, assetExtractor |-> x,
       extractEmbedded |-> c] :
        i \in UNION { [1..n -> Sources] : n \in 1..MaxImages },
        x \in BOOLEAN, c \in BOOLEAN }

InitMedia ==
    /\ InitStoryMapper /\ InitAssetExtractor /\ InitOrchestrator
    /\ input \in MediaCalls
    /\ outcome = [op |-> "processMediaElements", html |-> << >>]

\* One round of $('img').each (part_003:40-77) for the next image: an
\* external image is handed to extractAsset, whose promise is not awaited,
\* and keeps its src; any other image is left alone.
ProcessImage ==
    /\ input.op = "processMediaElements"
    /\ Len(outcome.html) < Len(input.images)
    /\ LET src == input.images[Len(outcome.html) + 1]
       IN  IF input.assetExtractor /\ input.extractEmbedded /\ IsExternalAsset(src)
           THEN /\ calls' = Append(calls, StartedCall(src))
                /\ outcome' = [outcome EXCEPT !.html = Append(@, SetAttr(src, NoFilename))]
                /\ UNCHANGED <<assets, nextRef, manifestLoaded>>
                /\ UNCHANGED <<slugVars, runVars>>
           ELSE /\ outcome' = [outcome EXCEPT !.html = Append(@, src)]
                /\ UNCHANGED <<slugVars, assetVars, runVars>>
    /\ UNCHANGED input

NextMedia ==
    \/ ProcessImage
    \/ \E c \in 1..MaxCalls, id \in GeneratedIds : DownloadSucceeds(c, id)
    \/ \E c \in 1..MaxCalls : DownloadFails(c)

SpecMedia == InitMedia /\ [][NextMedia]_vars

\* The src is of the uploads directory or is no absolute http(s) URL.
Managed(src) == src.uploads \/ src.scheme \notin {"http", "https"}

\* C25: an image of the uploads directory, or one whose src is no absolute
\* http(s) URL, is never handed to extractAsset: no call and no registry
\* entry is for its src, and its src is what it was.
C25_ManagedImageUntouched ==
    outcome.op = "processMediaElements" =>
        /\ \A c \in 1..Len(calls) : ~ Managed(calls[c].url)
        /\ \A a \in 1..Len(assets) : ~ Managed(assets[a].value.url)
        /\ \A i \in 1..Len(outcome.html) :
              Managed(input.images[i]) => outcome.html[i] = input.images[i]

\* An image of the uploads directory was processed, with an extractor and
\* extraction switched on, next to an external image that was downloaded.
C25_Witness ==
    /\ outcome.op = "processMediaElements"
    /\ input.assetExtractor /\ input.extractEmbedded
    /\ Len(outcome.html) = 2
    /\ input.images[1] = Src("https", TRUE, "cup.jpg")
    /\ input.images[2] = Src("https", FALSE, "cup.jpg")
    /\ Len(assets) = 1


----------------------------------------------------------------------------
(* RichtextAssetProcessor.downloadAssets *)

MaxRegistry == 3
MaxConcurrent == 2

\* downloadAssets(assetRegistry) with a registry of `size` assets, numbered
\* in the order of assetRegistry.values(), and the configured
\* maxConcurrentDownloads.
DownloadCalls ==
    { [op |-> "downloadAssets", size |-> n, maxConcurrentDownloads |-> m] :
        n \in 0..MaxRegistry, m \in 1..MaxConcurrent }

\* retryAttempts of the processor's configuration (part_005:37).
DownloadAttempts == 3

Min(a, b) == IF a < b THEN a ELSE b

\* assets.slice(i, i + maxConcurrentDownloads) without its end: all the
\* assets from i on.
SliceToEnd(i, size, m) == (i + 1)..size

\* assets.slice(i, i + maxConcurrentDownloads), i counting from 0.
Slice(i, size, m) == (i + 1)..Min(i + m, size)

\* The call before its loop: i = 0, no batch started, result lists empty;
\* promise[a] is the state of downloadSingleAsset(asset a): "none",
\* "pending" in its attempt number `attempt[a]`, "fulfilled" or "rejected".
InitDownload ==
    /\ InitStoryMapper /\ InitAssetExtractor /\ InitOrchestrator
    /\ input \in DownloadCalls
    /\ outcome = [op |-> "downloadAssets", i |-> 0, started |-> FALSE,
                  promise |-> [a \in 1..input.size |-> "none"],
                  attempt |-> [a \in 1..input.size |-> 0],
                  success |-> << >>, failed |-> << >>, downloaded |-> {},
                  returned |-> FALSE]

Batch == Slice(outcome.i, input.size, input.maxConcurrentDownloads)

DownloadStep(next) ==
    /\ input.op = "downloadAssets"
    /\ ~ outcome.returned
    /\ outcome' = next
    /\ UNCHANGED <<slugVars, assetVars, runVars, input>>

\* batch.map(asset => this.downloadSingleAsset(asset, options)) (line 59)
StartBatch ==
    /\ outcome.i < input.size
    /\ ~ outcome.started
    /\ DownloadStep([outcome EXCEPT
          !.started = TRUE,
          !.promise = [a \in 1..input.size |-> IF a \in Batch THEN "pending" ELSE @[a]],
          !.attempt = [a \in 1..input.size |-> IF a \in Batch THEN 1 ELSE @[a]]])

\* An attempt of downloadSingleAsset succeeds (lines 88-114).
AttemptSucceeds(a) ==
    /\ a \in 1..input.size
    /\ outcome.promise[a] = "pending"
    /\ DownloadStep([outcome EXCEPT !.promise[a] = "fulfilled"])

\* An attempt fails (lines 115-126): the next attempt follows, or after the
\* last one the promise rejects.
AttemptFails(a) ==
    /\ a \in 1..input.size
    /\ outcome.promise[a] = "pending"
    /\ DownloadStep(IF outcome.attempt[a] < DownloadAttempts
                    THEN [outcome EXCEPT !.attempt[a] = @ + 1]
                    ELSE [outcome EXCEPT !.promise[a] = "rejected"])

\* The elements of a set of numbers in ascending order.
RECURSIVE Ascending(_)
Ascending(S) ==
    IF S = {} THEN << >>
    ELSE LET least == CHOOSE x \in S : \A y \in S : x <= y
         IN  <<least>> \o Ascending(S \ {least})

\* await Promise.allSettled(batchPromises) resumes, and the results are
\* filed (lines 61-76); the loop goes on to i + maxConcurrentDownloads.
SettleBatch ==
    /\ outcome.started
    /\ \A a \in Batch : outcome.promise[a] \in {"fulfilled", "rejected"}
    /\ LET ok == { a \in Batch : outcome.promise[a] = "fulfilled" }
       IN  DownloadStep([outcome EXCEPT
              !.started = FALSE,
              !.i = @ + input.maxConcurrentDownloads,
              !.success = @ \o Ascending(ok),
              !.failed = @ \o Ascending(Batch \ ok),
              !.downloaded = @ \cup ok])

\* return results (lines 47-49 and 79)
ReturnResults ==
    /\ outcome.i >= input.size
    /\ DownloadStep([outcome EXCEPT !.returned = TRUE])

NextDownload ==
    \/ StartBatch
    \/ \E a \in 1..MaxRegistry : AttemptSucceeds(a)
    \/ \E a \in 1..MaxRegistry : AttemptFails(a)
    \/ SettleBatch
    \/ ReturnResults

SpecDownload == InitDownload /\ [][NextDownload]_vars

\* The downloads in flight.
Pending == { a \in 1..input.size : outcome.promise[a] = "pending" }

\* The number of the batch of asset a.
BatchOf(a) == (a - 1) \div input.maxConcurrentDownloads

Range(s) == { s[k] : k \in 1..Len(s) }

\* C26: at most maxConcurrentDownloads downloads are in flight; a download
\* has started only when every download of the earlier batches has
\* settled; and the call returns with every asset in exactly one of success
\* and failed, downloaded being set for exactly those in success.
C26_BatchedDownloads ==
    outcome.op = "downloadAssets" =>
        /\ Cardinality(Pending) <= input.maxConcurrentDownloads
        /\ \A a, b \in 1..input.size :
              (BatchOf(a) < BatchOf(b) /\ outcome.promise[b] # "none")
                  => outcome.promise[a] \in {"fulfilled", "rejected"}
        /\ outcome.returned =>
              /\ Range(outcome.success) \cup Range(outcome.failed) = 1..input.size
              /\ Range(outcome.success) \cap Range(outcome.failed) = {}
              /\ Len(outcome.success) + Len(outcome.failed) = input.size
              /\ outcome.downloaded = Range(outcome.success)

\* A call over two batches has returned with a success and a failure.
C26_Witness ==
    /\ outcome.op = "downloadAssets"
    /\ outcome.returned
    /\ input.size = 3
    /\ input.maxConcurrentDownloads = 2
    /\ outcome.success # << >>
    /\ outcome.failed # << >>


----------------------------------------------------------------------------
(* Items and stories of a run *)

\* The stories mapped from post i of the export: the loop of
\* mapStoriesWithOrganization maps the posts in their order once for each
\* language it gets to.
StoriesOfPost(i) ==
    { s \in 1..Len(stories) : Len(posts) > 0 /\ ((s - 1) % Len(posts)) + 1 = i }

\* C27: over the whole run every loaded post has at most one story; no post
\* is mapped again for another language.
C27_OneStoryPerItem ==
    \A i \in 1..Len(posts) : Cardinality(StoriesOfPost(i)) <= 1


\* The collections mapStories is to map: posts, pages, the configured
\* custom collections and, when authors are mapped as stories, the users.
MappedCollections ==
    {"posts", "pages"}
        \cup { input.contentTypes[k] : k \in 1..Len(input.contentTypes) }
        \cup (IF input.authorsAsStories THEN {"users"} ELSE {})

\* C28: mapStories maps every item of posts, of pages and of every
\* configured custom collection exactly once, whatever the keys of
\* contentTypes: it returns one story for each item and each author.
C28_EachItemOnce ==
    outcome.op = "mapStories" =>
        \A c \in MappedCollections \cap Collections :
            \A i \in 1..input.wordpressData[c] :
                Cardinality({ s \in 1..Len(outcome.stories) :
                                outcome.stories[s] = [collection |-> c, item |-> i] }) = 1


\* C29: the stories kept in storyData, which saveStories writes and
\* getSummary counts, are the stories mapStories returned, the result of
\* the afterStoryMapping hooks.
C29_HookResultStored ==
    outcome.op = "afterStoryMapping" => outcome.storyData = outcome.returned


\* The entries of the a elements with an href, in document order, from
\* element i on.
RECURSIVE EntriesInOrder(_, _)
EntriesInOrder(anchors, i) ==
    IF i > Len(anchors) THEN << >>
    ELSE (IF anchors[i] # Undefined THEN <<LinkEntry(anchors[i])>> ELSE << >>)
            \o EntriesInOrder(anchors, i + 1)

\* C30: when the promise of extractLinksFromContent resolves, the list
\* holds an entry for every a element with an href, in document order;
\* when that of transformContent resolves, every such element of the
\* returned HTML has its data-storyblok-link attribute; and no callback is
\* unfinished then.
C30_LinksCompleteOnResolve ==
    /\ outcome.op = "extractLinksFromContent" =>
          /\ outcome.resolved = EntriesInOrder(input.anchors, 1)
          /\ outcome.unfinished = {}
    /\ outcome.op = "transformContent" =>
          /\ \A i \in WithHref(input.anchors) : outcome.html[i]
          /\ outcome.unfinished = {}

====
